---------------------------- MODULE Spec2Model ----------------------------
(***************************************************************************)
(* Plugin hot-reload subsystem of openclaw (src/plugins/reloader.ts).      *)
(*                                                                         *)
(* The module models the two reload entry points, reloadPlugins and        *)
(* reloadOpenClawPlugins, the module cache buster clearPluginModuleCache,  *)
(* and the collaborators they drive: discovery, the loader with its        *)
(* registry cache, the command registry, the global hook runner and the    *)
(* active registry singleton.  The collaborators live in files that are    *)
(* not part of the source tree at hand (loader.js, runtime.js,             *)
(* discovery.js, commands.js, hook-runner-global.js); they are modelled    *)
(* from their documented contract.                                         *)
(***************************************************************************)
EXTENDS Integers, Sequences, FiniteSets, TLC

(***************************************************************************)
(* Bounds of the model.                                                    *)
(***************************************************************************)
\* Registries the loader may assemble in one behaviour.
MaxRefs == 3
\* Edits of the plugin files on disk in one behaviour.
MaxEdits == 1
\* Reading of performance.now() (in half milliseconds) at which the clock stops.
MaxClock == 1
\* Length of the `sources` array handed to clearPluginModuleCache directly.
MaxSources == 2

(***************************************************************************)
(* State.                                                                  *)
(***************************************************************************)
VARIABLES
  hostConfig,      \* the configuration the host runs with
  disk,            \* plugin id -> content of its source file
  edits,           \* edits of the disk so far
  moduleCache,     \* requireForCache.cache: resolved file name -> version evaluated
  registryCache,   \* the loader-level cache: cache key -> Registry
  activeRegistry,  \* the Active Registry Singleton
  pluginCommands,  \* the Command Registry
  hookRunner,      \* ref of the Registry the hook runner state was derived from, 0: uninitialized
  nextRef,         \* the reference the next Registry gets
  now,             \* performance.now(), in half milliseconds
  pc,              \* the statement the running call is at; "idle" between calls
  opts,            \* the arguments of the running call
  locals,          \* its local variables
  result,          \* what it handed to its caller
  callHist,        \* history of the running call: the state it started from, what threw
  clearedAt,       \* nextRef when the loader cache was last cleared, 0: never
  lastLoad,        \* the direct loadOpenClawPlugins call that just ended
  lastPurge,       \* the direct clearPluginModuleCache call that just ended
  reader,          \* the Registry an in-flight operation of the host got from get()
  im               \* the sendMessageIMessage call in progress and what it has done

vars == <<hostConfig, disk, edits, moduleCache, registryCache, activeRegistry, pluginCommands,
          hookRunner, nextRef, now, pc, opts, locals, result, callHist,
          clearedAt, lastLoad, lastPurge, reader, im>>

(***************************************************************************)
(* Paths.  A path is a sequence of segments; an absolute path starts with  *)
(* the segment "/".                                                        *)
(***************************************************************************)
\* process.cwd(), against which path.resolve resolves relative paths.
Cwd == <<"/", "ws">>

RECURSIVE NormalizeSegs(_, _)
NormalizeSegs(todo, acc) ==
  IF todo = <<>> THEN acc
  ELSE LET s == Head(todo) IN
       IF s = "." THEN NormalizeSegs(Tail(todo), acc)
       ELSE IF s = ".."
            THEN NormalizeSegs(Tail(todo),
                               IF Len(acc) > 1 THEN SubSeq(acc, 1, Len(acc) - 1) ELSE acc)
            ELSE NormalizeSegs(Tail(todo), Append(acc, s))

\* path.resolve(source): absolute, with "." and ".." segments folded.
normalizeSource(source) ==
  IF source # <<>> /\ Head(source) = "/"
  THEN NormalizeSegs(Tail(source), <<"/">>)
  ELSE NormalizeSegs(source, Cwd)

\* The workspace that exists on disk and one that does not.
WsDir == <<"/", "ws">>
NoDir == <<"/", "nonexistent">>
Workspaces == {WsDir, NoDir}

\* The plugins that may be installed under the workspace, in discovery order.
PluginOrder == <<"a", "b">>
PluginIds == {"a", "b"}
RootDir(id) == WsDir \o <<id>>
SourceOf(id) == RootDir(id) \o <<"index.js">>

\* A module of the host itself, resident in the import cache from the start.
HostModule == <<"/", "host", "core.js">>

\* What a plugin's source file may hold: nothing, one of two versions of
\* working code, or code whose import throws.
Contents == {"absent", "v1", "v2", "bad"}

\* Paths a caller may hand to clearPluginModuleCache: canonical keys, other
\* spellings of them, a plugin root directory and a path never imported.
PurgePaths ==
  { SourceOf("a"), SourceOf("b"), HostModule,
    <<"/", "ws", ".", "a", "index.js">>,
    <<"b", "index.js">>,
    RootDir("a"),
    <<"/", "tmp", "x.js">> }

RECURSIVE SeqsUpTo(_, _)
SeqsUpTo(S, n) ==
  IF n = 0 THEN {<<>>}
  ELSE LET shorter == SeqsUpTo(S, n - 1)
       IN shorter \cup {Append(q, x) : q \in {t \in shorter : Len(t) = n - 1}, x \in S}

Range(f) == {f[x] : x \in DOMAIN f}

EmptyMap == [k \in {} |-> 0]

Put(m, k, v) == [x \in DOMAIN m \cup {k} |-> IF x = k THEN v ELSE m[x]]

Drop(m, ks) == [x \in DOMAIN m \ ks |-> m[x]]

(***************************************************************************)
(* clearPluginModuleCache.  The import cache (require.cache) maps the      *)
(* resolved file name of a module to the module object; the model keeps    *)
(* the version of the code that was evaluated.                             *)
(***************************************************************************)
\* One pass of the for-loop over Object.keys(requireForCache.cache).
RECURSIVE PurgeLoop(_, _, _, _)
PurgeLoop(keys, resolved, cache, cleared) ==
  IF keys = {} THEN [cache |-> cache, cleared |-> cleared]
  ELSE LET cacheKey == CHOOSE k \in keys : TRUE
           normalizedKey == normalizeSource(cacheKey)
       IN IF \E i \in 1..Len(resolved) : normalizedKey = resolved[i]
          THEN PurgeLoop(keys \ {cacheKey}, resolved,
                         Drop(cache, {cacheKey}), cleared + 1)
          ELSE PurgeLoop(keys \ {cacheKey}, resolved, cache, cleared)

\* Mutant: the requested paths are compared as written.
clearPluginModuleCacheUnresolved(sources, cache) ==
  PurgeLoop(DOMAIN cache, sources, cache, 0)

clearPluginModuleCache(sources, cache) ==
  LET resolved == [i \in 1..Len(sources) |-> normalizeSource(sources[i])]
  IN PurgeLoop(DOMAIN cache, resolved, cache, 0)


(***************************************************************************)
(* Registries.  A Registry object is identified by its reference `ref`;    *)
(* reference equality of the code is equality of `ref`.  NoRegistry is     *)
(* the value `undefined` of getActivePluginRegistry().                     *)
(***************************************************************************)
NoRegistry == [ref |-> 0, plugins |-> <<>>, hooks |-> <<>>]

\* Configurations a caller may pass: every plugin enabled, or "b" disabled.
Configs == {[disabled |-> {}], [disabled |-> {"b"}]}

\* What a plugin's register() declares, by plugin id.
HooksOf(id) == IF id = "a" THEN <<[hookName |-> "onMessage", pluginId |-> "a"]>> ELSE <<>>
CommandsOf(id) == IF id = "a" THEN {[name |-> "a-cmd", pluginId |-> "a"]} ELSE {}

(***************************************************************************)
(* Discovery (discovery.js): the candidate plugin roots under the          *)
(* workspace, in lexicographic order; none for a workspace that does not   *)
(* exist.                                                                  *)
(***************************************************************************)
discoverOpenClawPlugins(workspaceDir, dsk) ==
  IF workspaceDir = WsDir
  THEN LET ids == SelectSeq(PluginOrder, LAMBDA id : dsk[id] # "absent")
       IN [i \in 1..Len(ids) |-> [id |-> ids[i], rootDir |-> RootDir(ids[i])]]
  ELSE <<>>

(***************************************************************************)
(* Loader (loader.js).                                                     *)
(***************************************************************************)
\* The load pass over the candidates: a disabled plugin is not imported, an
\* import that throws is recorded as status "error", and an import of a file
\* resident in the import cache reuses the module object evaluated earlier.
RECURSIVE LoadPass(_, _, _, _, _)
LoadPass(cands, config, dsk, modules, plugins) ==
  IF cands = <<>> THEN [plugins |-> plugins, modules |-> modules]
  ELSE LET id == Head(cands).id
           source == SourceOf(id)
           key == normalizeSource(source)
           plugin(status, version) ==
             [id |-> id, source |-> source, status |-> status, version |-> version]
       IN IF id \in config.disabled
          THEN LoadPass(Tail(cands), config, dsk, modules,
                        Append(plugins, plugin("disabled", "none")))
          ELSE IF key \in DOMAIN modules
          THEN LoadPass(Tail(cands), config, dsk, modules,
                        Append(plugins, plugin("loaded", modules[key])))
          ELSE IF dsk[id] = "bad"
          THEN LoadPass(Tail(cands), config, dsk, modules,
                        Append(plugins, plugin("error", "none")))
          ELSE LoadPass(Tail(cands), config, dsk, Put(modules, key, dsk[id]),
                        Append(plugins, plugin("loaded", dsk[id])))

RECURSIVE HooksOfPlugins(_)
HooksOfPlugins(plugins) ==
  IF plugins = <<>> THEN <<>>
  ELSE (IF Head(plugins).status = "loaded" THEN HooksOf(Head(plugins).id) ELSE <<>>)
       \o HooksOfPlugins(Tail(plugins))

CommandsOfPlugins(plugins) ==
  UNION {CommandsOf(plugins[i].id) : i \in {j \in 1..Len(plugins) : plugins[j].status = "loaded"}}

\* Mutant: the key also holds the time of the call.
CacheKeyStamped(config, workspaceDir, dsk) ==
  [config |-> config, workspaceDir |-> workspaceDir,
   candidates |-> discoverOpenClawPlugins(workspaceDir, dsk), stamp |-> nextRef]

\* The key of a loader-level cache entry: the effective load parameters.
CacheKey(config, workspaceDir, dsk) ==
  [config |-> config, workspaceDir |-> workspaceDir,
   candidates |-> discoverOpenClawPlugins(workspaceDir, dsk)]

\* Where a load may fail as a whole: not at all, before it has imported
\* anything, or after the imports and registrations but before it publishes.
LoadFaults == {"none", "early", "late"}

\* A value a collaborator throws: an Error with its message, or a bare string.
\* (`message` of an Error; `value` of anything else that is thrown.)
NoThrow == [threw |-> FALSE, isError |-> FALSE, message |-> "", value |-> 0]
Thrown ==
  { [threw |-> TRUE, isError |-> TRUE, message |-> "boom", value |-> 0],
    [threw |-> TRUE, isError |-> TRUE, message |-> "", value |-> 0],
    [threw |-> TRUE, isError |-> FALSE, message |-> "", value |-> 42] }
Outcomes == {NoThrow} \cup Thrown

\* The logger of a call: none injected (reloadPlugins then logs through its
\* subsystem logger, which does not throw), or an injected one, each call of
\* which may throw.
Loggers == {"default", "injected"}
LoggerThrown == [threw |-> TRUE, isError |-> TRUE, message |-> "sink closed", value |-> 0]
LoggerOutcomes(logger) == IF logger = "injected" THEN {NoThrow, LoggerThrown} ELSE {NoThrow}

\* A field of a result that is not set.
Absent == -1

NoOpts == [kind |-> "none", config |-> [disabled |-> {}], workspaceDir |-> NoDir,
           logger |-> "default"]
NoLocals == [start |-> 0, sourcePaths |-> <<>>, clearedModules |-> 0,
             registry |-> NoRegistry]
NoResult == [outcome |-> "none", ok |-> FALSE, registry |-> NoRegistry,
             pluginCount |-> Absent, hookCount |-> Absent, error |-> "",
             durationMs |-> Absent]
NoCallHist == [activeBefore |-> NoRegistry, nextRefBefore |-> 0, threwAt |-> "none",
               cacheAfterClear |-> EmptyMap, cleared |-> FALSE, loads |-> 0]
NoLoad == [done |-> FALSE, cache |-> FALSE, config |-> [disabled |-> {}],
           workspaceDir |-> NoDir, ref |-> 0, nextRefBefore |-> 0, first |-> 0]
NoPurge == [done |-> FALSE, sources |-> <<>>, before |-> EmptyMap, after |-> EmptyMap,
            cleared |-> 0, repeated |-> FALSE]

(***************************************************************************)
(* sendMessageIMessage (the iMessage send module): values.                 *)
(***************************************************************************)
\* The kinds of target parseIMessageTarget yields.
TargetKinds == {"chat_id", "chat_guid", "chat_identifier", "handle"}

\* Texts a caller passes: none, empty, white space, plain text, a table.
Texts == {"undefined", "", " ", "hi", "|a|"}

\* opts.mediaUrl: not given, white space, or a URL.
MediaUrls == {"undefined", " ", "http://m"}

\* text ?? ""
Coalesce(text) == IF text = "undefined" THEN "" ELSE text

\* String.prototype.trim()
Trim(text) == IF text = " " THEN "" ELSE text

\* convertMarkdownTables(message, tableMode): a table is rewritten, other
\* text is left as it is.
convertMarkdownTables(message) == IF message = "|a|" THEN "a" ELSE message

\* The sendMessageIMessage call before it is made.
NoIM == [pc |-> "idle", kind |-> "handle", replyToGuid |-> FALSE, text |-> "undefined",
         mediaUrl |-> "undefined", clientSupplied |-> FALSE, bbConfigured |-> FALSE,
         message |-> "", filePath |-> FALSE, shouldClose |-> FALSE,
         replyAttempts |-> 0, reply |-> "none", httpRequests |-> <<>>, rpcRequests |-> <<>>,
         created |-> 0, stoppedOwn |-> 0, stoppedSupplied |-> 0,
         outcome |-> "none", value |-> ""]

\* The process before its first load: nothing but the host's own module is
\* imported, no Registry is active.
InitRest ==
  /\ hostConfig \in Configs
  /\ disk = [id \in PluginIds |-> "v1"]
  /\ edits = 0
  /\ registryCache = EmptyMap
  /\ activeRegistry = NoRegistry
  /\ pluginCommands = {}
  /\ hookRunner = 0
  /\ nextRef = 1
  /\ now = 0
  /\ pc = "idle"
  /\ opts = NoOpts
  /\ locals = NoLocals
  /\ result = NoResult
  /\ callHist = NoCallHist
  /\ clearedAt = 0
  /\ lastLoad = NoLoad
  /\ lastPurge = NoPurge
  /\ reader = NoRegistry
  /\ im = NoIM

Init ==
  /\ moduleCache = [k \in {HostModule} |-> "v1"]
  /\ InitRest

\* Mutant: the loader publishes the Registry as soon as the plugins are
\* imported, before their hooks are assembled into it; a pass that throws
\* after the imports leaves that Registry active.
loadOpenClawPluginsPublishFirst(config, workspaceDir, cache, fault) ==
  LET key == CacheKey(config, workspaceDir, disk)
      pass == LoadPass(discoverOpenClawPlugins(workspaceDir, disk), config, disk,
                       moduleCache, <<>>)
      halfBuilt == [ref |-> nextRef, plugins |-> pass.plugins, hooks |-> <<>>]
      fresh == [halfBuilt EXCEPT !.hooks = HooksOfPlugins(pass.plugins)]
      unchanged == [threw |-> TRUE, registry |-> NoRegistry,
                    registryCache |-> registryCache, moduleCache |-> moduleCache,
                    commands |-> pluginCommands, active |-> activeRegistry,
                    nextRef |-> nextRef]
  IN IF fault = "early" THEN unchanged
     ELSE IF cache /\ key \in DOMAIN registryCache
     THEN [unchanged EXCEPT !.threw = FALSE, !.registry = registryCache[key],
                            !.active = registryCache[key]]
     ELSE IF fault = "late"
     THEN [unchanged EXCEPT !.moduleCache = pass.modules,
                            !.commands = pluginCommands \cup CommandsOfPlugins(pass.plugins),
                            !.active = halfBuilt, !.nextRef = nextRef + 1]
     ELSE [threw |-> FALSE, registry |-> fresh,
           registryCache |-> IF cache THEN Put(registryCache, key, fresh) ELSE registryCache,
           moduleCache |-> pass.modules,
           commands |-> pluginCommands \cup CommandsOfPlugins(pass.plugins),
           active |-> fresh, nextRef |-> nextRef + 1]

\* loadOpenClawPlugins(params): the state it leaves and the Registry it
\* returns.  With cache=true and an entry for the parameters it returns the
\* cached Registry; otherwise it runs a fresh pass, stores the new Registry
\* in the cache only when cache=true, and ends by publishing the Registry
\* it returns as the active one.
loadOpenClawPlugins(config, workspaceDir, cache, fault) ==
  LET key == CacheKey(config, workspaceDir, disk)
      pass == LoadPass(discoverOpenClawPlugins(workspaceDir, disk), config, disk,
                       moduleCache, <<>>)
      fresh == [ref |-> nextRef, plugins |-> pass.plugins,
                hooks |-> HooksOfPlugins(pass.plugins)]
      unchanged == [threw |-> TRUE, registry |-> NoRegistry,
                    registryCache |-> registryCache, moduleCache |-> moduleCache,
                    commands |-> pluginCommands, active |-> activeRegistry,
                    nextRef |-> nextRef]
  IN IF fault = "early" THEN unchanged
     ELSE IF cache /\ key \in DOMAIN registryCache
     THEN [unchanged EXCEPT !.threw = FALSE, !.registry = registryCache[key],
                            !.active = registryCache[key]]
     ELSE IF fault = "late"
     THEN [unchanged EXCEPT !.moduleCache = pass.modules,
                            !.commands = pluginCommands \cup CommandsOfPlugins(pass.plugins)]
     ELSE [threw |-> FALSE, registry |-> fresh,
           registryCache |-> IF cache THEN Put(registryCache, key, fresh) ELSE registryCache,
           moduleCache |-> pass.modules,
           commands |-> pluginCommands \cup CommandsOfPlugins(pass.plugins),
           active |-> fresh, nextRef |-> nextRef + 1]

\* clearPluginCaches / clearPluginLoaderCache: the loader-level cache after
\* it was invalidated.  The loader does not touch the import cache, whatever
\* pluginSourcePaths it is handed.
clearPluginCaches(pluginSourcePaths) == EmptyMap
clearPluginLoaderCache == EmptyMap

\* clearPluginCommands(): the Command Registry after it.
clearPluginCommands == {}

\* resetGlobalHookRunner(): the hook runner after it, uninitialized.
resetGlobalHookRunner == 0

(***************************************************************************)
(* Pieces of reloadPlugins and reloadOpenClawPlugins.                      *)
(***************************************************************************)
\* Mutant: the reload asks for a cached load.
reloadPluginsCacheTrue == TRUE

\* The `cache` argument each entry point passes to loadOpenClawPlugins.
reloadPluginsCache == FALSE
reloadOpenClawPluginsCache == FALSE

\* Mutant: reloadPlugins goes on without the clearPluginCaches call.
reloadPluginsSkippedClear(sourcePaths) == registryCache

\* The loader cache once reloadPlugins has made its call
\* clearPluginCaches({ pluginSourcePaths: sourcePaths }).
reloadPluginsClearedCache(sourcePaths) == clearPluginCaches(sourcePaths)

\* discovery.candidates.map((c) => c.rootDir)
SourcePathsOf(candidates) == [i \in 1..Len(candidates) |-> candidates[i].rootDir]

\* Mutant: the plugins' root directories are taken instead of their source files.
ActiveSourcesRootDirs(active) ==
  [i \in 1..Len(active.plugins) |-> RootDir(active.plugins[i].id)]

\* active?.plugins.map((plugin) => plugin.source) ?? []
ActiveSources(active) == [i \in 1..Len(active.plugins) |-> active.plugins[i].source]

\* Mutant: every plugin of the Registry is counted, whatever its status.
PluginCountAll(registry) == Len(registry.plugins)

\* Mutant: `.size` of an array, which is undefined.
PluginCountSize(registry) == Absent

\* registry.plugins.filter((p) => p.status === "loaded").length
PluginCount(registry) ==
  Cardinality({i \in 1..Len(registry.plugins) : registry.plugins[i].status = "loaded"})

\* registry.hooks.length
HookCount(registry) == Len(registry.hooks)

\* Math.round of a time given in half milliseconds: halves round up.
Round(halfMs) == (halfMs + 1) \div 2

\* Math.round(performance.now() - start)
DurationMs(start, end) == Round(end - start)

\* String(x) of a thrown number.
String(x) == IF x = 42 THEN "42" ELSE "0"

\* err instanceof Error ? err.message : String(err)
ErrorMessage(err) == IF err.isError THEN err.message ELSE String(err.value)

\* Mutant: the result carries the Registry that was active when the call began.
ReloadPluginsOkStale(registry, pluginCount, hookCount, durationMs) ==
  [outcome |-> "returned", ok |-> TRUE, registry |-> callHist.activeBefore,
   pluginCount |-> pluginCount, hookCount |-> hookCount, error |-> "",
   durationMs |-> durationMs]

\* return { ok: true, registry, pluginCount, hookCount, durationMs }
ReloadPluginsOk(registry, pluginCount, hookCount, durationMs) ==
  [outcome |-> "returned", ok |-> TRUE, registry |-> registry,
   pluginCount |-> pluginCount, hookCount |-> hookCount, error |-> "",
   durationMs |-> durationMs]

\* return { ok: false, error: message, durationMs }
ReloadPluginsFailed(message, durationMs) ==
  [outcome |-> "returned", ok |-> FALSE, registry |-> NoRegistry,
   pluginCount |-> Absent, hookCount |-> Absent, error |-> message,
   durationMs |-> durationMs]

\* Mutant: `return active`, the Registry read when the call began.
ReloadOpenClawReturnActive(registry) ==
  [NoResult EXCEPT !.outcome = "returned", !.registry = callHist.activeBefore]

\* return registry, of reloadOpenClawPlugins
ReloadOpenClawReturn(registry) ==
  [NoResult EXCEPT !.outcome = "returned", !.registry = registry]

\* The Registry a direct loadOpenClawPlugins call hands to the host.
LoadReturn(registry) ==
  [NoResult EXCEPT !.outcome = "returned", !.registry = registry]

\* An exception that leaves the call: the caller gets no value.
Escaped == [NoResult EXCEPT !.outcome = "escaped"]

world == <<hostConfig, disk, edits, reader, im>>
loaderState == <<moduleCache, registryCache, activeRegistry, pluginCommands, nextRef>>
callState == <<opts, locals, result, callHist>>
directHist == <<lastLoad, lastPurge>>

(***************************************************************************)
(* Direct calls of the exported primitives, and the environment.           *)
(***************************************************************************)
\* loadOpenClawPlugins({config, workspaceDir, cache}) called by the host.
LoadCall(config, workspaceDir, cache, fault) ==
  /\ pc = "idle"
  /\ nextRef <= MaxRefs
  /\ LET r == loadOpenClawPlugins(config, workspaceDir, cache, fault)
     IN /\ registryCache' = r.registryCache
        /\ moduleCache' = r.moduleCache
        /\ pluginCommands' = r.commands
        /\ activeRegistry' = r.active
        /\ nextRef' = r.nextRef
        /\ IF r.threw
           THEN result' = Escaped /\ UNCHANGED lastLoad
           ELSE /\ result' = LoadReturn(r.registry)
                /\ lastLoad' = [done |-> TRUE, cache |-> cache, config |-> config,
                                workspaceDir |-> workspaceDir, ref |-> r.registry.ref,
                                nextRefBefore |-> nextRef, first |-> 0]
  /\ pc' = "done"
  /\ opts' = [kind |-> "load", config |-> config, workspaceDir |-> workspaceDir,
              logger |-> "default"]
  /\ UNCHANGED <<world, hookRunner, now, locals, callHist, clearedAt, lastPurge>>

\* The same call made a second time, right after the first returned.
LoadAgain ==
  /\ pc = "done"
  /\ opts.kind = "load"
  /\ lastLoad.done
  /\ lastLoad.first = 0
  /\ nextRef <= MaxRefs
  /\ LET r == loadOpenClawPlugins(lastLoad.config, lastLoad.workspaceDir,
                                  lastLoad.cache, "none")
     IN /\ registryCache' = r.registryCache
        /\ moduleCache' = r.moduleCache
        /\ pluginCommands' = r.commands
        /\ activeRegistry' = r.active
        /\ nextRef' = r.nextRef
        /\ result' = LoadReturn(r.registry)
        /\ lastLoad' = [lastLoad EXCEPT !.ref = r.registry.ref, !.nextRefBefore = nextRef,
                                        !.first = lastLoad.ref]
  /\ UNCHANGED <<world, hookRunner, now, pc, opts, locals, callHist, clearedAt,
                 lastPurge>>

\* clearPluginCaches() called by the host.
ClearCachesCall ==
  /\ pc = "idle"
  /\ registryCache' = clearPluginCaches(<<>>)
  /\ clearedAt' = nextRef
  /\ UNCHANGED <<world, moduleCache, activeRegistry, pluginCommands, hookRunner,
                 nextRef, now, pc, callState, directHist>>

\* resetGlobalHookRunner() called by the host.
ResetHookRunnerCall ==
  /\ pc = "idle"
  /\ hookRunner' = resetGlobalHookRunner
  /\ UNCHANGED <<world, loaderState, now, pc, callState, clearedAt, directHist>>

\* A hook dispatch: an uninitialized runner derives its state from the
\* Registry that is active.
DispatchHook ==
  /\ pc = "idle"
  /\ hookRunner = 0
  /\ activeRegistry.ref # 0
  /\ hookRunner' = activeRegistry.ref
  /\ UNCHANGED <<world, loaderState, now, pc, callState, clearedAt, directHist>>

\* getActivePluginRegistry() called by an operation of the host that keeps the
\* reference while it runs; it may be called between any two statements of
\* a reload.
ReaderGet ==
  /\ reader # activeRegistry
  /\ reader' = activeRegistry
  /\ UNCHANGED <<hostConfig, disk, edits, im, loaderState, hookRunner, now, pc, callState,
                 clearedAt, directHist>>

\* clearPluginModuleCache(sources) called by the host.
PurgeCall(sources) ==
  /\ pc = "idle"
  /\ LET r == clearPluginModuleCache(sources, moduleCache)
     IN /\ moduleCache' = r.cache
        /\ lastPurge' = [done |-> TRUE, sources |-> sources, before |-> moduleCache,
                         after |-> r.cache, cleared |-> r.cleared, repeated |-> FALSE]
  /\ pc' = "done"
  /\ opts' = [NoOpts EXCEPT !.kind = "purge"]
  /\ UNCHANGED <<world, registryCache, activeRegistry, pluginCommands, nextRef,
                 hookRunner, now, locals, result, callHist, clearedAt, lastLoad>>

\* The same call made a second time, right after the first.
PurgeAgain ==
  /\ pc = "done"
  /\ opts.kind = "purge"
  /\ ~lastPurge.repeated
  /\ LET r == clearPluginModuleCache(lastPurge.sources, moduleCache)
     IN /\ moduleCache' = r.cache
        /\ lastPurge' = [lastPurge EXCEPT !.before = moduleCache, !.after = r.cache,
                                          !.cleared = r.cleared, !.repeated = TRUE]
  /\ UNCHANGED <<world, registryCache, activeRegistry, pluginCommands, nextRef,
                 hookRunner, now, pc, callState, clearedAt,
                 lastLoad>>

\* The plugin whose source file is edited while the host runs.
EditedPlugin == "a"

\* A plugin's source file is written, replaced or removed.
EditDisk(id, content) ==
  /\ pc = "idle"
  /\ edits < MaxEdits
  /\ content # disk[id]
  /\ disk' = [disk EXCEPT ![id] = content]
  /\ edits' = edits + 1
  /\ UNCHANGED <<hostConfig, reader, im, loaderState, hookRunner, now, pc, callState,
                 clearedAt, directHist>>

\* performance.now() advances while a call runs; the model lets it advance
\* where the call waits for the load pass.
Tick ==
  /\ pc = "rp_load"
  /\ now < MaxClock
  /\ now' = now + 1
  /\ UNCHANGED <<world, loaderState, hookRunner, pc, callState, clearedAt, directHist>>

\* The caller takes the result; the call's frame is gone.
Return ==
  /\ pc = "done"
  /\ pc' = "idle"
  /\ opts' = NoOpts
  /\ locals' = NoLocals
  /\ result' = NoResult
  /\ callHist' = NoCallHist
  /\ lastLoad' = NoLoad
  /\ lastPurge' = NoPurge
  /\ UNCHANGED <<world, loaderState, hookRunner, now, clearedAt>>

(***************************************************************************)
(* reloadPlugins(options), statement by statement.                         *)
(***************************************************************************)
\* Mutant: the load pass is written before the three clearing statements.
ReloadPluginsStepsLoadFirst ==
  <<"rp_logStart", "rp_discover", "rp_load", "rp_clearCaches", "rp_clearCommands",
    "rp_resetHooks", "rp_finish">>

\* The statements of the try block, in the order they are written.
ReloadPluginsSteps ==
  <<"rp_logStart", "rp_discover", "rp_clearCaches", "rp_clearCommands", "rp_resetHooks",
    "rp_load", "rp_finish">>

\* The statement control reaches when `step` has completed normally.
StepAfter(step) ==
  LET i == CHOOSE k \in 1..Len(ReloadPluginsSteps) : ReloadPluginsSteps[k] = step
  IN ReloadPluginsSteps[i + 1]

\* A statement inside the try block throws and the catch block runs:
\* durationMs, message, logger.error(...), return {ok: false, error, durationMs}.
\* A logger.error that throws leaves the call.
Caught(step, err) ==
  /\ pc' = "done"
  /\ callHist' = [callHist EXCEPT !.threwAt = step]
  /\ \E lo \in LoggerOutcomes(opts.logger) :
       result' = IF lo.threw THEN Escaped
                 ELSE ReloadPluginsFailed(ErrorMessage(err), DurationMs(locals.start, now))

\* const start = performance.now(); const logger = options.logger ?? {...}
ReloadPluginsCall(config, workspaceDir, logger) ==
  /\ pc = "idle"
  /\ nextRef <= MaxRefs
  /\ pc' = Head(ReloadPluginsSteps)
  /\ opts' = [kind |-> "reloadPlugins", config |-> config,
              workspaceDir |-> workspaceDir, logger |-> logger]
  /\ locals' = [NoLocals EXCEPT !.start = now]
  /\ callHist' = [NoCallHist EXCEPT !.activeBefore = activeRegistry,
                                    !.nextRefBefore = nextRef]
  /\ UNCHANGED <<world, loaderState, hookRunner, now, result, clearedAt, directHist>>

\* logger.info("[plugin-reload] Starting plugin hot-reload...")
RP_LogStart ==
  /\ pc = "rp_logStart"
  /\ \E lo \in LoggerOutcomes(opts.logger) :
       IF lo.threw THEN Caught("logStart", lo)
       ELSE pc' = StepAfter("rp_logStart") /\ UNCHANGED <<callHist, result>>
  /\ UNCHANGED <<world, loaderState, hookRunner, now, opts, locals, clearedAt,
                 directHist>>

\* const discovery = discoverOpenClawPlugins({workspaceDir}); const sourcePaths = ...
RP_Discover ==
  /\ pc = "rp_discover"
  /\ \E out \in Outcomes :
       IF out.threw THEN Caught("discovery", out) /\ UNCHANGED locals
       ELSE /\ pc' = StepAfter("rp_discover")
            /\ locals' = [locals EXCEPT !.sourcePaths =
                 SourcePathsOf(discoverOpenClawPlugins(opts.workspaceDir, disk))]
            /\ UNCHANGED <<callHist, result>>
  /\ UNCHANGED <<world, loaderState, hookRunner, now, opts, clearedAt, directHist>>

\* clearPluginCaches({ pluginSourcePaths: sourcePaths })
RP_ClearCaches ==
  /\ pc = "rp_clearCaches"
  /\ \E out \in Outcomes :
       IF out.threw
       THEN Caught("clearCaches", out) /\ UNCHANGED <<registryCache, clearedAt>>
       ELSE /\ pc' = StepAfter("rp_clearCaches")
            /\ registryCache' = reloadPluginsClearedCache(locals.sourcePaths)
            /\ clearedAt' = nextRef
            /\ callHist' = [callHist EXCEPT !.cleared = TRUE,
                              !.cacheAfterClear = registryCache']
            /\ UNCHANGED result
  /\ UNCHANGED <<world, moduleCache, activeRegistry, pluginCommands, nextRef,
                 hookRunner, now, opts, locals, directHist>>

\* clearPluginCommands()
RP_ClearCommands ==
  /\ pc = "rp_clearCommands"
  /\ \E out \in Outcomes :
       IF out.threw THEN Caught("clearCommands", out) /\ UNCHANGED pluginCommands
       ELSE /\ pc' = StepAfter("rp_clearCommands")
            /\ pluginCommands' = clearPluginCommands
            /\ UNCHANGED <<callHist, result>>
  /\ UNCHANGED <<world, moduleCache, registryCache, activeRegistry, nextRef,
                 hookRunner, now, opts, locals, clearedAt, directHist>>

\* resetGlobalHookRunner(); logger.info("[plugin-reload] Caches cleared, ...")
RP_ResetHooks ==
  /\ pc = "rp_resetHooks"
  /\ \E out \in Outcomes :
       IF out.threw THEN Caught("resetHooks", out) /\ UNCHANGED hookRunner
       ELSE /\ hookRunner' = resetGlobalHookRunner
            /\ \E lo \in LoggerOutcomes(opts.logger) :
                 IF lo.threw THEN Caught("logCleared", lo)
                 ELSE pc' = StepAfter("rp_resetHooks") /\ UNCHANGED <<callHist, result>>
  /\ UNCHANGED <<world, loaderState, now, opts, locals, clearedAt, directHist>>

\* const registry = loadOpenClawPlugins({..., cache: false})
RP_Load ==
  /\ pc = "rp_load"
  /\ \E out \in Outcomes :
     \E fault \in (IF out.threw THEN {"early", "late"} ELSE {"none"}) :
       LET r == loadOpenClawPlugins(opts.config, opts.workspaceDir,
                                    reloadPluginsCache, fault)
           h == [callHist EXCEPT !.loads = @ + 1]
       IN /\ registryCache' = r.registryCache
          /\ moduleCache' = r.moduleCache
          /\ pluginCommands' = r.commands
          /\ activeRegistry' = r.active
          /\ nextRef' = r.nextRef
          /\ IF r.threw
             THEN /\ pc' = "done"
                  /\ callHist' = [h EXCEPT !.threwAt = "load"]
                  /\ \E lo \in LoggerOutcomes(opts.logger) :
                       result' = IF lo.threw THEN Escaped
                                 ELSE ReloadPluginsFailed(ErrorMessage(out),
                                                          DurationMs(locals.start, now))
                  /\ UNCHANGED locals
             ELSE /\ pc' = StepAfter("rp_load")
                  /\ locals' = [locals EXCEPT !.registry = r.registry]
                  /\ callHist' = h
                  /\ UNCHANGED result
  /\ UNCHANGED <<world, hookRunner, now, opts, clearedAt, directHist>>

\* pluginCount, hookCount, durationMs; logger.info("Reload complete ..."); return
RP_Finish ==
  /\ pc = "rp_finish"
  /\ \E lo \in LoggerOutcomes(opts.logger) :
       IF lo.threw THEN Caught("logDone", lo)
       ELSE /\ pc' = "done"
            /\ result' = ReloadPluginsOk(locals.registry, PluginCount(locals.registry),
                                         HookCount(locals.registry),
                                         DurationMs(locals.start, now))
            /\ UNCHANGED callHist
  /\ UNCHANGED <<world, loaderState, hookRunner, now, opts, locals, clearedAt,
                 directHist>>

(***************************************************************************)
(* reloadOpenClawPlugins(params), statement by statement.  It has no try   *)
(* block: whatever a collaborator throws leaves the call.                  *)
(***************************************************************************)
Uncaught(step) ==
  /\ pc' = "done"
  /\ result' = Escaped
  /\ callHist' = [callHist EXCEPT !.threwAt = step]

\* const active = getActivePluginRegistry(); const sources = active?.plugins.map(...) ?? []
ReloadOpenClawPluginsCall(config, workspaceDir, logger) ==
  /\ pc = "idle"
  /\ nextRef <= MaxRefs
  /\ pc' = "ro_purge"
  /\ opts' = [kind |-> "reloadOpenClawPlugins", config |-> config,
              workspaceDir |-> workspaceDir, logger |-> logger]
  /\ locals' = [NoLocals EXCEPT !.start = now,
                                !.sourcePaths = ActiveSources(activeRegistry)]
  /\ callHist' = [NoCallHist EXCEPT !.activeBefore = activeRegistry, !.nextRefBefore = nextRef]
  /\ UNCHANGED <<world, loaderState, hookRunner, now, result, clearedAt,
                 directHist>>

\* const clearedModules = clearPluginModuleCache(sources)
RO_Purge ==
  /\ pc = "ro_purge"
  /\ LET r == clearPluginModuleCache(locals.sourcePaths, moduleCache)
     IN /\ moduleCache' = r.cache
        /\ locals' = [locals EXCEPT !.clearedModules = r.cleared]
  /\ pc' = "ro_clearLoader"
  /\ UNCHANGED <<world, registryCache, activeRegistry, pluginCommands, nextRef,
                 hookRunner, now, opts, result, callHist, clearedAt, directHist>>

\* clearPluginLoaderCache()
RO_ClearLoader ==
  /\ pc = "ro_clearLoader"
  /\ \E out \in Outcomes :
       IF out.threw
       THEN Uncaught("clearCaches") /\ UNCHANGED <<registryCache, clearedAt>>
       ELSE /\ pc' = "ro_load"
            /\ registryCache' = clearPluginLoaderCache
            /\ clearedAt' = nextRef
            /\ callHist' = [callHist EXCEPT !.cleared = TRUE,
                                            !.cacheAfterClear = registryCache']
            /\ UNCHANGED result
  /\ UNCHANGED <<world, moduleCache, activeRegistry, pluginCommands, nextRef,
                 hookRunner, now, opts, locals, directHist>>

\* const registry = loadOpenClawPlugins({..., cache: false})
RO_Load ==
  /\ pc = "ro_load"
  /\ \E out \in Outcomes :
     \E fault \in (IF out.threw THEN {"early", "late"} ELSE {"none"}) :
       LET r == loadOpenClawPlugins(opts.config, opts.workspaceDir,
                                    reloadOpenClawPluginsCache, fault)
           h == [callHist EXCEPT !.loads = @ + 1]
       IN /\ registryCache' = r.registryCache
          /\ moduleCache' = r.moduleCache
          /\ pluginCommands' = r.commands
          /\ activeRegistry' = r.active
          /\ nextRef' = r.nextRef
          /\ IF r.threw
             THEN /\ pc' = "done"
                  /\ result' = Escaped
                  /\ callHist' = [h EXCEPT !.threwAt = "load"]
                  /\ UNCHANGED locals
             ELSE /\ pc' = "ro_log"
                  /\ locals' = [locals EXCEPT !.registry = r.registry]
                  /\ callHist' = h
                  /\ UNCHANGED result
  /\ UNCHANGED <<world, hookRunner, now, opts, clearedAt,
                 directHist>>

\* params.logger?.info("[plugins] hot-reload complete ..."); return registry
RO_Log ==
  /\ pc = "ro_log"
  /\ \E lo \in LoggerOutcomes(opts.logger) :
       IF lo.threw
       THEN Uncaught("logDone")
       ELSE /\ pc' = "done"
            /\ result' = ReloadOpenClawReturn(locals.registry)
            /\ UNCHANGED callHist
  /\ UNCHANGED <<world, loaderState, hookRunner, now, opts, locals, clearedAt, directHist>>

(***************************************************************************)
(* The specification.  The host is single-threaded and both entry points   *)
(* are synchronous: a call runs to its end before another one starts.      *)
(***************************************************************************)
Next ==
  \/ \E cache \in BOOLEAN, fault \in LoadFaults :
        LoadCall(hostConfig, WsDir, cache, fault)
  \/ LoadAgain
  \/ ClearCachesCall
  \/ ResetHookRunnerCall
  \/ DispatchHook
  \/ \E content \in Contents : EditDisk(EditedPlugin, content)
  \/ Tick
  \/ Return
  \/ \E workspaceDir \in Workspaces, logger \in Loggers :
        ReloadPluginsCall(hostConfig, workspaceDir, logger)
  \/ RP_LogStart
  \/ RP_Discover
  \/ RP_ClearCaches
  \/ RP_ClearCommands
  \/ RP_ResetHooks
  \/ RP_Load
  \/ RP_Finish
  \/ \E workspaceDir \in Workspaces, logger \in Loggers :
        ReloadOpenClawPluginsCall(hostConfig, workspaceDir, logger)
  \/ RO_Purge
  \/ RO_ClearLoader
  \/ RO_Load
  \/ RO_Log

Spec == Init /\ [][Next]_vars

(***************************************************************************)
(* The module cache buster on its own: any import cache the process may    *)
(* hold, purged for any array of paths, once or twice in a row.            *)
(***************************************************************************)
InitPurge ==
  /\ moduleCache \in
       UNION {[K -> {"v1", "v2"}] : K \in SUBSET {HostModule, SourceOf("a"), SourceOf("b")}}
  /\ InitRest

NextPurge ==
  \/ \E sources \in SeqsUpTo(PurgePaths, MaxSources) : PurgeCall(sources)
  \/ PurgeAgain
  \/ Return

SpecPurge == InitPurge /\ [][NextPurge]_vars

(***************************************************************************)
(* Loads and reloads with a reader of the Active Registry Singleton that   *)
(* may call get() between any two statements.                              *)
(***************************************************************************)
NextReaders ==
  \/ \E cache \in BOOLEAN, fault \in LoadFaults :
        LoadCall(hostConfig, WsDir, cache, fault)
  \/ \E content \in Contents : EditDisk(EditedPlugin, content)
  \/ Return
  \/ ReaderGet
  \/ \E workspaceDir \in Workspaces, logger \in Loggers :
        ReloadPluginsCall(hostConfig, workspaceDir, logger)
  \/ RP_LogStart
  \/ RP_Discover
  \/ RP_ClearCaches
  \/ RP_ClearCommands
  \/ RP_ResetHooks
  \/ RP_Load
  \/ RP_Finish
  \/ \E workspaceDir \in Workspaces, logger \in Loggers :
        ReloadOpenClawPluginsCall(hostConfig, workspaceDir, logger)
  \/ RO_Purge
  \/ RO_ClearLoader
  \/ RO_Load
  \/ RO_Log

SpecReaders == Init /\ [][NextReaders]_vars

(***************************************************************************)
(* The orchestrator on its own: reloadPlugins calls, with loads by the     *)
(* host, hook dispatches and edits of the plugin on disk between them.     *)
(***************************************************************************)
NextOrchestrator ==
  \/ \E cache \in BOOLEAN, fault \in LoadFaults :
        LoadCall(hostConfig, WsDir, cache, fault)
  \/ \E content \in Contents : EditDisk(EditedPlugin, content)
  \/ DispatchHook
  \/ Tick
  \/ Return
  \/ \E workspaceDir \in Workspaces, logger \in Loggers :
        ReloadPluginsCall(hostConfig, workspaceDir, logger)
  \/ RP_LogStart
  \/ RP_Discover
  \/ RP_ClearCaches
  \/ RP_ClearCommands
  \/ RP_ResetHooks
  \/ RP_Load
  \/ RP_Finish

SpecOrchestrator == Init /\ [][NextOrchestrator]_vars

(***************************************************************************)
(* The thin entry point on its own: reloadOpenClawPlugins calls, hook      *)
(* dispatches and edits of the plugin on disk between them.                *)
(***************************************************************************)
NextThin ==
  \/ \E content \in Contents : EditDisk(EditedPlugin, content)
  \/ DispatchHook
  \/ Return
  \/ \E workspaceDir \in Workspaces, logger \in Loggers :
        ReloadOpenClawPluginsCall(hostConfig, workspaceDir, logger)
  \/ RO_Purge
  \/ RO_ClearLoader
  \/ RO_Load
  \/ RO_Log

SpecThin == Init /\ [][NextThin]_vars

(***************************************************************************)
(* sendMessageIMessage(to, text, opts), statement by statement.  The call  *)
(* is asynchronous; `im` holds its position, its locals and what it has    *)
(* done to the outside: HTTP requests, RPC requests, clients made and      *)
(* stopped.                                                                *)
(***************************************************************************)
reloaderState ==
  <<hostConfig, disk, edits, reader, loaderState, hookRunner, now, pc, callState,
    clearedAt, directHist>>

\* What the BlueBubbles server may answer to the POST, or fetch throwing.
BBResponses == {"guid", "noGuid", "notOk", "fetchThrows", "jsonThrows"}

NullResult == [isNull |-> TRUE, messageId |-> ""]

\* sendViaBlueBubblesReply(chatGuid, text, selectedMessageGuid, cfg): whether
\* it issued the HTTP request, whether it threw, and what it returned.
sendViaBlueBubblesReply(text, configured, response) ==
  IF ~configured
  THEN [sent |-> FALSE, threw |-> FALSE, result |-> NullResult]
  ELSE IF response = "fetchThrows"
  THEN [sent |-> TRUE, threw |-> TRUE, result |-> NullResult]
  ELSE IF response = "notOk"
  THEN [sent |-> TRUE, threw |-> FALSE, result |-> NullResult]
  ELSE IF response = "jsonThrows"
  THEN [sent |-> TRUE, threw |-> TRUE, result |-> NullResult]
  ELSE [sent |-> TRUE, threw |-> FALSE,
        result |-> [isNull |-> FALSE,
                    messageId |-> IF response = "guid" THEN "bb-guid" ELSE "ok"]]

\* Mutant: a reply is tried for every kind of target.
ReplyPathAnyTarget(replyToGuid, kind) == replyToGuid

\* opts.replyToGuid && target.kind === "chat_guid"
ReplyPathTaken(replyToGuid, kind) == replyToGuid /\ kind = "chat_guid"

\* Mutant: the result of the reply is not looked at.
ReplyIgnored(bbResult) == FALSE

\* if (bbResult) { return bbResult; }
ReplyReturns(bbResult) == ~bbResult.isNull

\* opts.mediaUrl?.trim()
HasMediaUrl(mediaUrl) == mediaUrl # "undefined" /\ Trim(mediaUrl) # ""

\* What resolveAttachment may do: throw, or save a file of some media kind
\* ("none": a content type mediaKindFromMime does not know).
Attachments == {"throws", "image", "video", "none"}

\* kind === "image" ? "<media:image>" : `<media:${kind}>`
MediaPlaceholder(kind) == IF kind = "image" THEN "<media:image>" ELSE "<media:video>"

\* Mutant: only the text is required.
MissingText(message, filePath) == Trim(message) = ""

\* !message.trim() && !filePath
MissingTextAndMedia(message, filePath) == Trim(message) = "" /\ ~filePath

\* Mutant: the client is closed whoever made it.
ShouldCloseAlways(clientSupplied) == TRUE

\* const shouldClose = !opts.client
ShouldClose(clientSupplied) == ~clientSupplied

\* What client.request("send", ...) may do: reject, time out, or resolve
\* with a result.
RpcResults ==
  { [isNull |-> FALSE, messageId |-> "m1", ok |-> ""],
    [isNull |-> FALSE, messageId |-> " ", ok |-> "1"],
    [isNull |-> FALSE, messageId |-> "", ok |-> ""],
    [isNull |-> TRUE, messageId |-> "", ok |-> ""] }
RpcFailures == {"fails", "timeout"}

\* resolveMessageId(result), "" standing for null
resolveMessageId(rpcResult) == IF rpcResult.isNull THEN "" ELSE Trim(rpcResult.messageId)

\* resolvedId ?? (result?.ok ? "ok" : "unknown")
MessageIdOf(rpcResult) ==
  IF resolveMessageId(rpcResult) # "" THEN resolveMessageId(rpcResult)
  ELSE IF ~rpcResult.isNull /\ rpcResult.ok # "" THEN "ok"
  ELSE "unknown"

IMRejected(message) == [im EXCEPT !.pc = "done", !.outcome = "rejected", !.value = message]

\* sendMessageIMessage(to, text, opts): config, account and target are resolved.
SendMessageIMessageCall(kind, text, replyToGuid, mediaUrl, clientSupplied, bbConfigured) ==
  /\ im.pc = "idle"
  /\ im' = [NoIM EXCEPT !.kind = kind, !.text = text, !.replyToGuid = replyToGuid,
                        !.mediaUrl = mediaUrl, !.clientSupplied = clientSupplied,
                        !.bbConfigured = bbConfigured,
                        !.pc = IF ReplyPathTaken(replyToGuid, kind)
                               THEN "im_reply" ELSE "im_attachment"]
  /\ UNCHANGED reloaderState

\* The reply through the BlueBubbles HTTP API.
IM_Reply ==
  /\ im.pc = "im_reply"
  /\ \E response \in BBResponses :
       LET text0 == Coalesce(im.text)
           message == IF Trim(text0) # "" THEN convertMarkdownTables(text0) ELSE text0
           bb == sendViaBlueBubblesReply(message, im.bbConfigured, response)
           tried == [im EXCEPT !.replyAttempts = @ + 1,
                               !.reply = IF bb.threw THEN "threw"
                                         ELSE IF bb.result.isNull THEN "null"
                                         ELSE "result",
                               !.httpRequests = IF bb.sent THEN Append(@, message) ELSE @]
       IN im' = IF bb.threw
                THEN [tried EXCEPT !.pc = "done", !.outcome = "rejected",
                                   !.value = "bluebubbles"]
                ELSE IF ReplyReturns(bb.result)
                THEN [tried EXCEPT !.pc = "done", !.outcome = "resolved",
                                   !.value = bb.result.messageId]
                ELSE [tried EXCEPT !.pc = "im_attachment"]
  /\ UNCHANGED reloaderState

\* let message = text ?? ""; the attachment, if a media URL is given.
IM_Attachment ==
  /\ im.pc = "im_attachment"
  /\ LET message == Coalesce(im.text)
     IN IF HasMediaUrl(im.mediaUrl)
        THEN \E att \in Attachments :
               im' = IF att = "throws" THEN IMRejected("media")
                     ELSE [im EXCEPT !.pc = "im_check", !.filePath = TRUE,
                                     !.message = IF Trim(message) = "" /\ att # "none"
                                                 THEN MediaPlaceholder(att) ELSE message]
        ELSE im' = [im EXCEPT !.pc = "im_check", !.message = message]
  /\ UNCHANGED reloaderState

\* The text-or-media check, the table conversion and the request parameters.
IM_Check ==
  /\ im.pc = "im_check"
  /\ im' = IF MissingTextAndMedia(im.message, im.filePath)
           THEN IMRejected("iMessage send requires text or media")
           ELSE [im EXCEPT !.pc = "im_client",
                           !.message = IF Trim(im.message) # ""
                                       THEN convertMarkdownTables(im.message) ELSE @]
  /\ UNCHANGED reloaderState

\* const client = opts.client ?? (await createIMessageRpcClient(...)); shouldClose
IM_Client ==
  /\ im.pc = "im_client"
  /\ \E created \in BOOLEAN :
       im' = IF im.clientSupplied
             THEN [im EXCEPT !.pc = "im_request",
                             !.shouldClose = ShouldClose(im.clientSupplied)]
             ELSE IF ~created THEN IMRejected("spawn")
             ELSE [im EXCEPT !.pc = "im_request", !.created = @ + 1,
                             !.shouldClose = ShouldClose(im.clientSupplied)]
  /\ UNCHANGED reloaderState

\* try { const result = await client.request("send", params, ...); return {...} }
IM_Request ==
  /\ im.pc = "im_request"
  /\ LET sent == [im EXCEPT !.pc = "im_finally",
                            !.rpcRequests = Append(@, [text |-> im.message,
                                                       file |-> im.filePath])]
     IN \/ \E rpcResult \in RpcResults :
             im' = [sent EXCEPT !.outcome = "resolved", !.value = MessageIdOf(rpcResult)]
        \/ \E failure \in RpcFailures :
             im' = [sent EXCEPT !.outcome = "rejected", !.value = failure]
  /\ UNCHANGED reloaderState

\* finally { if (shouldClose) { await client.stop(); } }
IM_Finally ==
  /\ im.pc = "im_finally"
  /\ \E stopThrows \in BOOLEAN :
       LET stopped == IF im.clientSupplied
                      THEN [im EXCEPT !.stoppedSupplied = @ + 1]
                      ELSE [im EXCEPT !.stoppedOwn = @ + 1]
       IN im' = IF ~im.shouldClose THEN [im EXCEPT !.pc = "done"]
                ELSE IF stopThrows
                THEN [stopped EXCEPT !.pc = "done", !.outcome = "rejected", !.value = "stop"]
                ELSE [stopped EXCEPT !.pc = "done"]
  /\ UNCHANGED reloaderState

\* The caller has the promise's outcome.
IM_Settled ==
  /\ im.pc = "done"
  /\ im' = NoIM
  /\ UNCHANGED reloaderState

NextIMessage ==
  \/ \E kind \in TargetKinds, text \in Texts, replyToGuid \in BOOLEAN,
        mediaUrl \in MediaUrls, clientSupplied \in BOOLEAN, bbConfigured \in BOOLEAN :
        SendMessageIMessageCall(kind, text, replyToGuid, mediaUrl, clientSupplied,
                                bbConfigured)
  \/ IM_Reply
  \/ IM_Attachment
  \/ IM_Check
  \/ IM_Client
  \/ IM_Request
  \/ IM_Finally
  \/ IM_Settled

SpecIMessage == Init /\ [][NextIMessage]_vars

(***************************************************************************)
(* Properties.                                                             *)
(***************************************************************************)
Reloads == {"reloadPlugins", "reloadOpenClawPlugins"}

\* The statements of reloadPlugins that call a collaborator.
CollaboratorSteps == {"discovery", "clearCaches", "clearCommands", "resetHooks", "load"}

\* The canonical absolute form of each path of the model, written out.
CanonicalForm(path) ==
  IF path = <<"/", "ws", ".", "a", "index.js">> THEN <<"/", "ws", "a", "index.js">>
  ELSE IF path = <<"b", "index.js">> THEN <<"/", "ws", "b", "index.js">>
  ELSE path

\* The Registries created before the one that gets reference n.
CreatedBefore(n) == 1..(n - 1)

\* C1 (as claimed): whenever a collaborator step of reloadPlugins throws
\* (discovery, cache clearing, command clear, hook-runner reset or the load
\* pass), the active Registry after the call is the one from before the call
\* and the call returns ok:false with a non-empty error string.
C1_RollbackOnFailure ==
  (pc = "done" /\ opts.kind = "reloadPlugins" /\ callHist.threwAt \in CollaboratorSteps)
    => /\ activeRegistry = callHist.activeBefore
       /\ result.outcome = "returned"
       /\ ~result.ok
       /\ result.error # ""

\* C2: after a reloadPlugins call that returns ok:true, the active Registry
\* is exactly the Registry of the result, and it is not the Registry that
\* was active before the call.
C2_ActiveRegistryPublication ==
  (pc = "done" /\ opts.kind = "reloadPlugins" /\ result.outcome = "returned" /\ result.ok)
    => /\ activeRegistry = result.registry
       /\ activeRegistry.ref = result.registry.ref
       /\ result.registry.ref # 0
       /\ result.registry.ref # callHist.activeBefore.ref

\* A successful reloadPlugins that replaced a Registry loaded earlier.
C2_Witness ==
  /\ pc = "done" /\ opts.kind = "reloadPlugins"
  /\ result.outcome = "returned" /\ result.ok
  /\ callHist.activeBefore.ref # 0
  /\ activeRegistry.ref = result.registry.ref

\* C3 (as claimed): no exception leaves a reload entry point; every call of
\* reloadPlugins and of reloadOpenClawPlugins hands its caller a value.
C3_NoExceptionEscapes ==
  (pc = "done" /\ opts.kind \in Reloads) => result.outcome = "returned"

\* C4: a reloadPlugins call in which no collaborator throws returns ok:true
\* with a defined registry, durationMs >= 0 and numeric pluginCount and
\* hookCount, whatever the workspace directory; a workspace that does not
\* exist yields no candidates and is not a failure.
C4_ReloadSuccess ==
  (pc = "done" /\ opts.kind = "reloadPlugins" /\ callHist.threwAt = "none")
    => /\ result.outcome = "returned"
       /\ result.ok
       /\ result.registry.ref # 0
       /\ result.durationMs >= 0
       /\ result.pluginCount \in Nat
       /\ result.hookCount \in Nat
       /\ (opts.workspaceDir = NoDir => locals.sourcePaths = <<>>)

\* A reloadPlugins over the workspace that does not exist has returned ok:true.
C4_Witness ==
  /\ pc = "done" /\ opts.kind = "reloadPlugins"
  /\ opts.workspaceDir = NoDir
  /\ callHist.threwAt = "none"
  /\ result.ok /\ result.pluginCount = 0

\* C5: the Registry returned by a load with cache=false, and by a successful
\* reload through either entry point, is none of the Registries created
\* before that call; two cache=false loads in a row return two Registries.
C5_FreshReference ==
  pc = "done" =>
    /\ (opts.kind = "load" /\ lastLoad.done /\ ~lastLoad.cache)
         => /\ lastLoad.ref # 0
            /\ lastLoad.ref \notin CreatedBefore(lastLoad.nextRefBefore)
            /\ lastLoad.ref # lastLoad.first
    /\ (opts.kind \in Reloads /\ result.outcome = "returned"
          /\ (opts.kind = "reloadPlugins" => result.ok))
         => /\ result.registry.ref # 0
            /\ result.registry.ref \notin CreatedBefore(callHist.nextRefBefore)

\* reloadOpenClawPlugins has returned while an earlier Registry was active and
\* the plugins on disk are those that Registry was loaded from.
C5_Witness ==
  /\ pc = "done" /\ opts.kind = "reloadOpenClawPlugins"
  /\ result.outcome = "returned"
  /\ callHist.activeBefore.ref # 0
  /\ edits = 0
  /\ result.registry.plugins = callHist.activeBefore.plugins

\* C6: two load(cache=true) calls in a row with the same parameters, no
\* clear, reload or edit between them, return the same Registry.
C6_CachedLoadIdempotent ==
  (pc = "done" /\ opts.kind = "load" /\ lastLoad.done /\ lastLoad.cache
     /\ lastLoad.first # 0)
    => lastLoad.ref = lastLoad.first

\* The second of two cached loads in a row has returned.
C6_Witness ==
  /\ pc = "done" /\ opts.kind = "load"
  /\ lastLoad.done /\ lastLoad.cache /\ lastLoad.first # 0

\* C7: once the loader cache has been cleared (by clearPluginCaches, or by a
\* reload that reached its clear step), a load(cache=true) returns none of
\* the Registries created before that clear.
C7_ClearInvalidates ==
  (pc = "done" /\ opts.kind = "load" /\ lastLoad.done /\ lastLoad.cache
     /\ clearedAt # 0)
    => lastLoad.ref \notin CreatedBefore(clearedAt)

\* A cached load after a clear that followed the creation of a Registry,
\* with the plugins on disk untouched.
C7_Witness ==
  /\ pc = "done" /\ opts.kind = "load"
  /\ lastLoad.done /\ lastLoad.cache
  /\ clearedAt > 1
  /\ edits = 0
  /\ lastLoad.ref >= clearedAt

\* C8: the load pass of a reload leaves the loader cache as the reload's
\* clear step left it, and the Registry it produced is not a cache entry.
C8_ReloadLoadLeavesCache ==
  (opts.kind \in Reloads /\ callHist.loads > 0)
    => /\ registryCache = callHist.cacheAfterClear
       /\ \A k \in DOMAIN registryCache :
            locals.registry.ref # 0 => registryCache[k].ref # locals.registry.ref

\* The load pass of a reloadPlugins call has produced a Registry.
C8_Witness ==
  /\ opts.kind = "reloadPlugins"
  /\ callHist.loads = 1
  /\ locals.registry.ref # 0
  /\ Len(locals.registry.plugins) > 0

\* C9: clearPluginModuleCache(sources) removes exactly the entries whose
\* canonical key is the canonical form of a requested path and returns
\* their number; N distinct requested paths that are keys of the cache
\* remove N entries; paths that match no entry remove nothing and return 0;
\* the same call made again returns 0 and changes nothing.
C9_PurgeTargeting ==
  lastPurge.done =>
    LET sources == lastPurge.sources
        requested == {CanonicalForm(sources[i]) : i \in 1..Len(sources)}
        hit == {k \in DOMAIN lastPurge.before : CanonicalForm(k) \in requested}
        distinct == \A i, j \in 1..Len(sources) : sources[i] = sources[j] => i = j
    IN /\ DOMAIN lastPurge.after = DOMAIN lastPurge.before \ hit
       /\ \A k \in DOMAIN lastPurge.after : lastPurge.after[k] = lastPurge.before[k]
       /\ lastPurge.cleared = Cardinality(hit)
       /\ moduleCache = lastPurge.after
       /\ (distinct /\ \A i \in 1..Len(sources) : sources[i] \in DOMAIN lastPurge.before)
            => lastPurge.cleared = Len(sources)
       /\ hit = {} => (lastPurge.cleared = 0 /\ lastPurge.after = lastPurge.before)
       /\ lastPurge.repeated => (lastPurge.cleared = 0 /\ lastPurge.after = lastPurge.before)

\* Two paths written otherwise than the keys they name have been purged, and
\* the same call has been made again.
C9_Witness ==
  /\ lastPurge.done /\ lastPurge.repeated
  /\ lastPurge.sources = << <<"/", "ws", ".", "a", "index.js">>, <<"b", "index.js">> >>
  /\ DOMAIN lastPurge.after = {HostModule}
  /\ lastPurge.cleared = 0

\* C10 (as claimed): when a reload is at its load step, the import cache
\* holds no entry for a source file of a plugin of the Registry that was
\* active when the reload began.
C10_NoStaleModuleAtLoad ==
  (pc \in {"rp_load", "ro_load"})
    => \A i \in 1..Len(callHist.activeBefore.plugins) :
         CanonicalForm(callHist.activeBefore.plugins[i].source) \notin DOMAIN moduleCache

\* The plugins of a Registry that have the given status, as a sequence.
WithStatus(registry, status) == SelectSeq(registry.plugins, LAMBDA p : p.status = status)

\* The candidates a load pass over the workspace imports without error:
\* present on disk, sound, and not disabled.
Loadable(config, workspaceDir, dsk) ==
  {id \in PluginIds : /\ workspaceDir = WsDir
                      /\ dsk[id] \notin {"absent", "bad"}
                      /\ id \notin config.disabled}

\* C11: in every ok:true result of reloadPlugins, pluginCount is the number
\* of plugins of result.registry with status "loaded" and hookCount is the
\* length of result.registry.hooks; a plugin that failed to load or is
\* disabled is in the Registry with its status, does not make the result
\* ok:false, and the plugins that loaded are in the Registry as "loaded".
C11_CountsAndPartialFailure ==
  (pc = "done" /\ opts.kind = "reloadPlugins")
    => /\ (result.outcome = "returned" /\ result.ok)
            => /\ result.pluginCount = Len(WithStatus(result.registry, "loaded"))
               /\ result.hookCount = Len(result.registry.hooks)
               /\ result.pluginCount <= Len(result.registry.plugins)
               /\ \A id \in Loadable(opts.config, opts.workspaceDir, disk) :
                    \E i \in 1..Len(result.registry.plugins) :
                       /\ result.registry.plugins[i].id = id
                       /\ result.registry.plugins[i].status = "loaded"
       /\ (callHist.threwAt = "none") => (result.outcome = "returned" /\ result.ok)

\* A reloadPlugins call has returned ok:true for a Registry in which one
\* plugin failed to load and another loaded.
C11_Witness ==
  /\ pc = "done" /\ opts.kind = "reloadPlugins"
  /\ result.outcome = "returned" /\ result.ok
  /\ Len(WithStatus(result.registry, "error")) = 1
  /\ result.pluginCount = 1
  /\ Len(result.registry.plugins) = 2

\* A fully built Registry: its plugins have distinct ids, every hook in it
\* belongs to one of its loaded plugins, and every hook its loaded plugins
\* register is in it.
FullyBuilt(r) ==
  /\ \A i, j \in 1..Len(r.plugins) : r.plugins[i].id = r.plugins[j].id => i = j
  /\ \A i \in 1..Len(r.hooks) :
       \E j \in 1..Len(r.plugins) : /\ r.plugins[j].id = r.hooks[i].pluginId
                                    /\ r.plugins[j].status = "loaded"
  /\ \A j \in 1..Len(r.plugins) :
       r.plugins[j].status = "loaded" =>
         \A k \in 1..Len(HooksOf(r.plugins[j].id)) :
           \E i \in 1..Len(r.hooks) : r.hooks[i] = HooksOf(r.plugins[j].id)[k]

\* Every place of the process that holds a Registry reference.
Holders ==
  {activeRegistry, locals.registry, result.registry, callHist.activeBefore}
    \cup {registryCache[k] : k \in DOMAIN registryCache}

\* C12: at every point of a reload, get() yields either the Registry that was
\* active when the reload began or the fully built Registry the load pass
\* returned; what a reader got from get() is fully built, and every holder
\* of that reference still sees the plugins and hooks the reader saw.
C12_ReaderConsistency ==
  /\ FullyBuilt(activeRegistry)
  /\ FullyBuilt(reader)
  /\ (opts.kind \in Reloads) =>
        \/ activeRegistry = callHist.activeBefore
        \/ /\ activeRegistry.ref # 0
           /\ activeRegistry.ref \notin CreatedBefore(callHist.nextRefBefore)
           /\ activeRegistry = locals.registry
           /\ callHist.loads = 1
  /\ \A h \in Holders : h.ref = reader.ref => h = reader

\* A reader holds the Registry a reload has replaced by one with other
\* plugin code, and the reload is still running.
C12_Witness ==
  /\ opts.kind = "reloadPlugins" /\ pc = "rp_finish"
  /\ reader.ref # 0
  /\ reader = callHist.activeBefore
  /\ activeRegistry.ref # reader.ref
  /\ activeRegistry.plugins # reader.plugins
  /\ Len(reader.hooks) > 0

\* C13 (as claimed): in every reachable state the Hook Runner is either
\* uninitialized or holds the dispatch state derived from the Registry that
\* is active; it never holds state derived from a Registry that was replaced.
C13_HookRunnerGeneration ==
  hookRunner = 0 \/ hookRunner = activeRegistry.ref

\* C14 (as claimed): when reloadPlugins returns ok:false, the Active Registry
\* is the one from before the call and the Command Registry holds the
\* commands registered by the loaded plugins of that Registry.
C14_FailureKeepsGlobalState ==
  (pc = "done" /\ opts.kind = "reloadPlugins" /\ result.outcome = "returned" /\ ~result.ok)
    => /\ activeRegistry = callHist.activeBefore
       /\ CommandsOfPlugins(activeRegistry.plugins) \subseteq pluginCommands

\* The phase of the reload state machine a reloadPlugins call is in; a call
\* that has ended is "published" when its load pass returned a Registry.
Phase ==
  IF opts.kind # "reloadPlugins" THEN "idle"
  ELSE IF pc \in {"rp_logStart", "rp_discover"} THEN "discovering"
  ELSE IF pc \in {"rp_clearCaches", "rp_clearCommands", "rp_resetHooks"} THEN "cache-clearing"
  ELSE IF pc = "rp_load" THEN "loading"
  ELSE IF pc = "rp_finish" THEN "published"
  ELSE IF locals.registry.ref # 0 THEN "published"
  ELSE "failed"

PhaseSteps ==
  { <<"idle", "discovering">>, <<"discovering", "cache-clearing">>,
    <<"cache-clearing", "loading">>, <<"loading", "published">>,
    <<"discovering", "failed">>, <<"cache-clearing", "failed">>,
    <<"loading", "failed">>,
    <<"published", "idle">>, <<"failed", "idle">> }

\* What holds at each statement of a reloadPlugins call.
C15_AtStep ==
  (opts.kind = "reloadPlugins") =>
    /\ pc \in {"rp_logStart", "rp_discover"} => (~callHist.cleared /\ callHist.loads = 0)
    /\ pc = "rp_clearCaches" =>
         /\ locals.sourcePaths = SourcePathsOf(discoverOpenClawPlugins(opts.workspaceDir, disk))
         /\ ~callHist.cleared /\ callHist.loads = 0
    /\ pc = "rp_clearCommands" => (callHist.cleared /\ callHist.loads = 0)
    /\ pc = "rp_resetHooks" =>
         (callHist.cleared /\ pluginCommands = {} /\ callHist.loads = 0)
    /\ pc = "rp_load" =>
         /\ callHist.cleared /\ registryCache = EmptyMap
         /\ pluginCommands = {}
         /\ hookRunner = 0
         /\ callHist.loads = 0
         /\ activeRegistry = callHist.activeBefore
    /\ pc = "rp_finish" => (callHist.loads = 1 /\ activeRegistry = locals.registry)

\* What each statement of a reloadPlugins call may change.
C15_Step ==
  (opts.kind = "reloadPlugins" \/ opts'.kind = "reloadPlugins") =>
    /\ Phase' # Phase => <<Phase, Phase'>> \in PhaseSteps
    /\ Phase = "discovering" =>
         UNCHANGED <<registryCache, pluginCommands, hookRunner, moduleCache, activeRegistry>>
    /\ pc = "rp_clearCaches" => UNCHANGED <<pluginCommands, hookRunner, activeRegistry>>
    /\ pc = "rp_clearCommands" => UNCHANGED <<registryCache, hookRunner, activeRegistry>>
    /\ pc = "rp_resetHooks" => UNCHANGED <<registryCache, pluginCommands, activeRegistry>>
    /\ pc = "rp_load" => registryCache' = registryCache
    /\ activeRegistry' # activeRegistry =>
         /\ pc = "rp_load" /\ pc' = "rp_finish"
         /\ activeRegistry' = locals'.registry
         /\ activeRegistry'.ref = nextRef

C16_SinglePublish ==
  (pc = "done" /\ opts.kind = "reloadPlugins") =>
    /\ callHist.loads <= 1
    /\ IF result.outcome = "returned" /\ result.ok
       THEN /\ activeRegistry = result.registry
            /\ activeRegistry.ref = callHist.nextRefBefore
            /\ nextRef = callHist.nextRefBefore + 1
       ELSE /\ activeRegistry = callHist.activeBefore
            /\ nextRef = callHist.nextRefBefore

\* The import-cache keys that name one of the given paths.
KeysNaming(paths, cache) ==
  {k \in DOMAIN cache : \E i \in 1..Len(paths) : CanonicalForm(k) = CanonicalForm(paths[i])}

\* What holds at each statement of a reloadOpenClawPlugins call.
C17_AtStep ==
  (opts.kind = "reloadOpenClawPlugins") =>
    /\ Len(locals.sourcePaths) = Len(callHist.activeBefore.plugins)
    /\ \A i \in 1..Len(locals.sourcePaths) :
         locals.sourcePaths[i] = callHist.activeBefore.plugins[i].source
    /\ callHist.activeBefore.ref = 0 => locals.sourcePaths = <<>>
    /\ pc = "ro_purge" =>
         (activeRegistry = callHist.activeBefore /\ ~callHist.cleared /\ callHist.loads = 0)
    /\ pc = "ro_clearLoader" =>
         /\ KeysNaming(locals.sourcePaths, moduleCache) = {}
         /\ ~callHist.cleared /\ callHist.loads = 0
         /\ activeRegistry = callHist.activeBefore
    /\ pc = "ro_load" =>
         /\ callHist.cleared /\ registryCache = EmptyMap
         /\ callHist.loads = 0
         /\ activeRegistry = callHist.activeBefore
    /\ pc = "ro_log" =>
         /\ callHist.loads = 1
         /\ locals.registry.ref = callHist.nextRefBefore
         /\ activeRegistry = locals.registry
    /\ (pc = "done" /\ result.outcome = "returned") =>
         /\ callHist.cleared /\ callHist.loads = 1
         /\ result.registry = locals.registry
         /\ result.registry.ref = callHist.nextRefBefore
         /\ Len(result.registry.plugins)
              = Len(discoverOpenClawPlugins(opts.workspaceDir, disk))
         /\ \A i \in 1..Len(result.registry.plugins) :
              (result.registry.plugins[i].status = "disabled")
                 <=> (result.registry.plugins[i].id \in opts.config.disabled)

\* What each statement of a reloadOpenClawPlugins call may change.
C17_Step ==
  (opts.kind = "reloadOpenClawPlugins") =>
    /\ pc = "ro_purge" =>
         /\ DOMAIN moduleCache' = DOMAIN moduleCache \ KeysNaming(locals.sourcePaths, moduleCache)
         /\ \A k \in DOMAIN moduleCache' : moduleCache'[k] = moduleCache[k]
         /\ locals'.clearedModules = Cardinality(KeysNaming(locals.sourcePaths, moduleCache))
         /\ UNCHANGED <<registryCache, activeRegistry, pluginCommands, hookRunner>>
    /\ pc = "ro_clearLoader" =>
         UNCHANGED <<moduleCache, activeRegistry, pluginCommands, hookRunner>>
    /\ pc = "ro_load" => registryCache' = registryCache
    /\ pc = "ro_log" => UNCHANGED <<moduleCache, registryCache, activeRegistry>>
    /\ callHist'.cleared # callHist.cleared => (pc = "ro_clearLoader" \/ pc = "done")
    /\ callHist'.loads # callHist.loads =>
         \/ pc = "ro_load" /\ callHist'.loads = callHist.loads + 1
         \/ pc = "done"

\* C17: a reloadOpenClawPlugins call reads the Active Registry first, purges
\* from the import cache exactly the entries that name a `source` path of
\* that Registry's plugins (nothing when no Registry is active), then
\* clears the loader cache once, then runs the loader once with cache=false
\* and the caller's config and workspaceDir, and returns the Registry that
\* load produced.
C17_ThinReload == []C17_AtStep /\ [][C17_Step]_vars

\* A reloadOpenClawPlugins call has returned after purging the modules of the
\* Registry that was active when it began.
C17_Witness ==
  /\ pc = "done" /\ opts.kind = "reloadOpenClawPlugins"
  /\ result.outcome = "returned"
  /\ callHist.activeBefore.ref # 0
  /\ locals.clearedModules > 0
  /\ result.registry.ref # callHist.activeBefore.ref

\* The errors with which a sendMessageIMessage call ends before it has a
\* client to send with.
EndsBeforeSend == {"media", "iMessage send requires text or media", "spawn"}

\* C18 (as claimed): a sendMessageIMessage call with blank text and no media
\* rejects with "iMessage send requires text or media" and has sent nothing:
\* no RPC `send` request and no BlueBubbles HTTP request, whatever the
\* target kind and replyToGuid.
C18_NeverSendsEmpty ==
  (im.pc = "done" /\ Trim(Coalesce(im.text)) = "" /\ ~HasMediaUrl(im.mediaUrl))
    => /\ im.outcome = "rejected"
       /\ im.value = "iMessage send requires text or media"
       /\ im.httpRequests = <<>>
       /\ im.rpcRequests = <<>>

\* C19: a client the call created is stopped exactly once, after the `send`
\* request and before the call settles, whether the request resolved,
\* failed or timed out; a client the caller supplied is never stopped; and
\* a call that ends without a `send` request has created no client.
C19_ClientLifecycle ==
  /\ im.stoppedSupplied = 0
  /\ im.created <= 1
  /\ im.stoppedOwn <= im.created
  /\ im.clientSupplied => im.created = 0
  /\ im.pc \in {"im_request", "im_finally"} =>
       (im.stoppedOwn = 0 /\ (im.clientSupplied \/ im.created = 1))
  /\ im.pc = "done" =>
       /\ im.stoppedOwn = im.created
       /\ (im.created = 1) <=> (~im.clientSupplied /\ Len(im.rpcRequests) = 1)
       /\ (im.reply = "result" \/ im.value = "iMessage send requires text or media")
            => (im.created = 0 /\ im.rpcRequests = <<>>)

\* A call that created its client has settled after the `send` request
\* timed out.
C19_Witness ==
  /\ im.pc = "done"
  /\ im.created = 1 /\ im.stoppedOwn = 1
  /\ im.outcome = "rejected" /\ im.value = "timeout"

\* What C20 says of every call, apart from the number of `send` requests
\* after a reply that returned null: the reply is tried only with replyToGuid
\* set and a chat_guid target, at most once; a reply that returned a result
\* ends the call with that result and no `send` request.
ReplyPathRules ==
  /\ im.replyAttempts <= 1
  /\ Len(im.httpRequests) <= im.replyAttempts
  /\ Len(im.rpcRequests) <= 1
  /\ im.replyAttempts = 1 => (im.replyToGuid /\ im.kind = "chat_guid")
  /\ (im.replyAttempts = 0) <=> (im.reply = "none")
  /\ im.reply = "result" =>
       /\ im.pc = "done" /\ im.outcome = "resolved"
       /\ im.value \in {"bb-guid", "ok"}
       /\ im.rpcRequests = <<>>
  /\ im.reply = "threw" => (im.pc = "done" /\ im.rpcRequests = <<>>)

\* C20 (as claimed): the rules of the reply path, and a call whose reply
\* returned null issues exactly one RPC `send` request.
C20_ReplyFallback ==
  /\ ReplyPathRules
  /\ (im.pc = "done" /\ im.reply = "null") => Len(im.rpcRequests) = 1

\* C20 (amended): the rules of the reply path, and a call whose reply
\* returned null goes on with the normal send: it issues exactly one RPC
\* `send` request unless it ends before it has a client (the attachment
\* cannot be resolved, text and media are both missing, or no client can be
\* created), in which case it issues none.
C20_ReplyFallbackAmended ==
  /\ ReplyPathRules
  /\ (im.pc = "done" /\ im.reply = "null") =>
       IF im.outcome = "rejected" /\ im.value \in EndsBeforeSend
       THEN im.rpcRequests = <<>>
       ELSE Len(im.rpcRequests) = 1

\* The BlueBubbles server answered the reply with a non-OK status and the
\* message then went out through the RPC client.
C20_Witness ==
  /\ im.pc = "done"
  /\ im.reply = "null" /\ im.bbConfigured
  /\ Len(im.httpRequests) = 1
  /\ Len(im.rpcRequests) = 1
  /\ im.outcome = "resolved"
=============================================================================
